---- MODULE Spec2Model ----
(***************************************************************************)
(* Model of mnemnk-screen (src/src/main.rs): the ScreenAgent event loop    *)
(* (timer tick / control line / ctrl-c), the control protocol, and the     *)
(* blank-filter and change-detection pipeline.                             *)
(***************************************************************************)
EXTENDS Integers, Sequences, FiniteSets, TLC

-----------------------------------------------------------------------------
(* Bounds of the model *)

\* wall-clock seconds the model tells apart
MaxNow == 2
\* interrupt signals the environment raises during a run
MaxSignals == 1

-----------------------------------------------------------------------------
(* Option<T>: None is the empty tuple, Some(x) the one-element tuple *)

None == <<>>
Some(x) == <<x>>
IsSome(o) == o # <<>>
Unwrap(o) == o[1]

\* the element of a one-element set; {e(x) : x \in {v}} names the value v once
The(S) == CHOOSE x \in S : TRUE

\* an f32 is kept as an exact fraction n/d; d = 0 is NaN (0.0 / 0.0)
Ratio(n, d) == [n |-> n, d |-> d]
\* a < b on f32: false whenever an operand is NaN
RatioLess(a, b) == a.d # 0 /\ b.d # 0 /\ a.n * b.d < b.n * a.d

-----------------------------------------------------------------------------
(* AgentConfig *)

DefaultConfig ==
    [interval |-> 60,
     almost_black_threshold |-> 20,
     non_blank_threshold |-> 400,
     same_screen_ratio |-> Ratio(1, 100)]

(* serde_json values: unsigned integers, other numbers, strings *)
JUInt(n) == [t |-> "uint", n |-> n, d |-> 1]
JFloat(n, d) == [t |-> "float", n |-> n, d |-> d]
JStr == [t |-> "str", n |-> 0, d |-> 1]

as_u64(v) == IF v.t = "uint" THEN Some(v.n) ELSE None
as_f64(v) == IF v.t \in {"uint", "float"} THEN Some(Ratio(v.n, v.d)) ELSE None

JObject(fields) == [kind |-> "object", fields |-> fields]
JNull == [kind |-> "null", fields |-> <<>>]

\* the payload texts the orchestrator and the command line use
TxtInterval0 == "{\"interval\":0}"
TxtInterval2 == "{\"interval\":2,\"non_blank_threshold\":1}"
TxtRatio == "{\"same_screen_ratio\":0.5,\"non_blank_threshold\":1}"
TxtThreshold ==
    "{\"same_screen_threshold\":0.5,\"almost_black_threshold\":276,\"non_blank_threshold\":1,\"foo\":1}"
TxtWrongType == "{\"interval\":\"5\"}"
TxtGarbage == "{interval"
TxtCli == "{\"interval\":1,\"non_blank_threshold\":1}"

\* what serde_json::from_str makes of the texts that parse
JsonOf ==
    [s \in {TxtInterval0, TxtInterval2, TxtRatio, TxtThreshold, TxtWrongType, TxtCli} |->
        CASE s = TxtInterval0 -> JObject([k \in {"interval"} |-> JUInt(0)])
          [] s = TxtInterval2 ->
                JObject([k \in {"interval", "non_blank_threshold"} |->
                            IF k = "interval" THEN JUInt(2) ELSE JUInt(1)])
          [] s = TxtRatio ->
                JObject([k \in {"same_screen_ratio", "non_blank_threshold"} |->
                            IF k = "same_screen_ratio" THEN JFloat(1, 2) ELSE JUInt(1)])
          [] s = TxtThreshold ->
                JObject([k \in {"same_screen_threshold", "almost_black_threshold",
                                "non_blank_threshold", "foo"} |->
                            CASE k = "same_screen_threshold" -> JFloat(1, 2)
                              [] k = "almost_black_threshold" -> JUInt(276)
                              [] OTHER -> JUInt(1)])
          [] s = TxtWrongType -> JObject([k \in {"interval"} |-> JStr])
          [] OTHER ->
                JObject([k \in {"interval", "non_blank_threshold"} |-> JUInt(1)])]

\* serde_json::from_str(s).unwrap_or(Value::Null)
serde_json_from_str(s) == IF s \in DOMAIN JsonOf THEN JsonOf[s] ELSE JNull

\* one `if let Some(v) = c.get(key) { config.field = v.as_u64().unwrap(); }`:
\* the value the field ends with, None when the unwrap() panics
FieldU64(c, key, default) ==
    IF key \in DOMAIN c THEN as_u64(c[key]) ELSE Some(default)

\* the same with as_f64() (the `as f32` keeps the fractions used here exactly)
FieldF64(c, key, default) ==
    IF key \in DOMAIN c THEN as_f64(c[key]) ELSE Some(default)

\* impl From<&str> for AgentConfig; ok = FALSE when an unwrap() panicked
AgentConfigFrom(s) == The({
        IF v.kind # "object" THEN [ok |-> TRUE, config |-> DefaultConfig]
        ELSE LET interval_ ==
                     FieldU64(v.fields, "interval", DefaultConfig.interval)
                 almost_black_threshold_ ==
                     FieldU64(v.fields, "almost_black_threshold",
                              DefaultConfig.almost_black_threshold)
                 non_blank_threshold_ ==
                     FieldU64(v.fields, "non_blank_threshold",
                              DefaultConfig.non_blank_threshold)
                 same_screen_ratio_ ==
                     FieldF64(v.fields, "same_screen_threshold",
                              DefaultConfig.same_screen_ratio)
             IN  IF /\ IsSome(interval_)
                    /\ IsSome(almost_black_threshold_)
                    /\ IsSome(non_blank_threshold_)
                    /\ IsSome(same_screen_ratio_)
                 THEN [ok |-> TRUE,
                       config |-> [interval |-> Unwrap(interval_),
                                   almost_black_threshold |-> Unwrap(almost_black_threshold_),
                                   non_blank_threshold |-> Unwrap(non_blank_threshold_),
                                   same_screen_ratio |-> Unwrap(same_screen_ratio_)]]
                 ELSE [ok |-> FALSE, config |-> DefaultConfig]
      : v \in {serde_json_from_str(s)}})

-----------------------------------------------------------------------------
(* Images *)

\* linear downsampling factor passed to fast_downsample
Scale == 4
\* is_blank samples every Stride-th pixel
Stride == 120
\* luma difference above which two fingerprint pixels differ
Sensitivity == 5

White == <<255, 255, 255, 255>>
Black == <<0, 0, 0, 255>>

\* RgbaImage / GrayImage: row-major pixel data, pixel (x, y) at y * width + x
Image(w, h, data) == [width |-> w, height |-> h, data |-> data]

get_pixel(img, x, y) == img.data[y * img.width + x + 1]

FrameWhite == Image(12, 4, [i \in 1..48 |-> White])
\* white with the rightmost 4x4 block black (the pixel is_blank samples is white)
FramePatch == Image(12, 4, [i \in 1..48 |-> IF (i - 1) % 12 >= 8 THEN Black ELSE White])
FrameBlack == Image(12, 4, [i \in 1..48 |-> Black])

\* what capture_image() can return for the primary monitor
Frames == {FrameWhite, FramePatch, FrameBlack}

Gray(v) == <<v, v, v, 255>>

\* frames of other sizes: smaller than one block, one block, and 16x8 frames of
\* which is_blank samples the pixels 0 and 120
FrameTiny == Image(2, 2, [i \in 1..4 |-> White])
FrameBlock == Image(4, 4, [i \in 1..16 |-> White])
FrameWide == Image(16, 8, [i \in 1..128 |-> White])
FrameDim == Image(16, 8, [i \in 1..128 |-> Gray(19)])
\* black but for the second sampled pixel
FrameSecond == Image(16, 8, [i \in 1..128 |-> IF i = 121 THEN White ELSE Black])
\* white but for the two sampled pixels
FrameOff == Image(16, 8, [i \in 1..128 |-> IF i \in {1, 121} THEN Black ELSE White])

DetectorFrames == {FrameTiny, FrameBlock, FrameWide, FrameDim, FrameSecond, FrameOff}

\* RGBA to grayscale of one source pixel
Luma(px) == (px[1] * 299 + px[2] * 587 + px[3] * 114) \div 1000

\* `sum` over the pixels k..scale*scale-1 of block (x, y), row by row
RECURSIVE BlockSum(_, _, _, _, _)
BlockSum(img, scale, x, y, k) ==
    IF k >= scale * scale THEN 0
    ELSE Luma(get_pixel(img, x * scale + (k % scale), y * scale + (k \div scale)))
         + BlockSum(img, scale, x, y, k + 1)

fast_downsample(img, scale) ==
    LET new_width == img.width \div scale
        new_height == img.height \div scale
        scale_squared == scale * scale
    IN  Image(new_width, new_height,
              [i \in 1..(new_width * new_height) |->
                  (BlockSum(img, scale, (i - 1) % new_width, (i - 1) \div new_width, 0)
                     \div scale_squared) % 256])

get_difference_ratio2(img1, img2) ==
    IF <<img1.width, img1.height>> # <<img2.width, img2.height>>
    THEN Ratio(1, 1)
    ELSE LET diff(i) == IF img1.data[i] > img2.data[i]
                        THEN img1.data[i] - img2.data[i]
                        ELSE img2.data[i] - img1.data[i]
             different_pixels ==
                 Cardinality({i \in DOMAIN img1.data : diff(i) > Sensitivity})
         IN  Ratio(different_pixels, (img1.width * img1.height))

\* the loop of is_blank from sampled pixel index i (0-based) with `count`
RECURSIVE IsBlankFrom(_, _, _, _)
IsBlankFrom(cfg, image, i, count) ==
    IF i >= Len(image.data) THEN TRUE
    ELSE LET pixel == image.data[i + 1]
             th == cfg.almost_black_threshold % 256
             c2 == IF pixel[1] >= th \/ pixel[2] >= th \/ pixel[3] >= th
                   THEN count + 1 ELSE count
         IN  IF c2 >= cfg.non_blank_threshold THEN FALSE
             ELSE IsBlankFrom(cfg, image, i + Stride, c2)

is_blank(cfg, image) == IsBlankFrom(cfg, image, 0, 0)

\* variant: the fingerprint of every judged frame becomes the baseline
is_same_always_store(cfg, last_image, screenshot) ==
    LET gray_image == fast_downsample(screenshot.image, Scale)
    IN  IF IsSome(last_image)
        THEN LET diff_ratio == get_difference_ratio2(gray_image, Unwrap(last_image))
             IN  IF RatioLess(diff_ratio, cfg.same_screen_ratio)
                 THEN [same |-> TRUE, last_image |-> Some(gray_image)]
                 ELSE [same |-> FALSE, last_image |-> Some(gray_image)]
        ELSE [same |-> FALSE, last_image |-> Some(gray_image)]

\* is_same: the verdict and the last_image it leaves behind
is_same(cfg, last_image, screenshot) ==
    LET gray_image == fast_downsample(screenshot.image, Scale)
    IN  IF IsSome(last_image)
        THEN LET diff_ratio == get_difference_ratio2(gray_image, Unwrap(last_image))
             IN  IF RatioLess(diff_ratio, cfg.same_screen_ratio)
                 THEN [same |-> TRUE, last_image |-> last_image]
                 ELSE [same |-> FALSE, last_image |-> Some(gray_image)]
        ELSE [same |-> FALSE, last_image |-> Some(gray_image)]

-----------------------------------------------------------------------------
(* Control protocol *)

IsSpace(c) == c \in {" ", "\n"}

\* index of the first piece of l at or after i that is not whitespace
RECURSIVE FirstNonSpace(_, _)
FirstNonSpace(l, i) ==
    IF i > Len(l) THEN i
    ELSE IF IsSpace(l[i]) THEN FirstNonSpace(l, i + 1) ELSE i

\* index of the last piece of l at or before j that is not whitespace
RECURSIVE LastNonSpace(_, _)
LastNonSpace(l, j) ==
    IF j < 1 THEN 0
    ELSE IF IsSpace(l[j]) THEN LastNonSpace(l, j - 1) ELSE j

\* str::trim
Trim(l) == SubSeq(l, FirstNonSpace(l, 1), LastNonSpace(l, Len(l)))

\* position of the first " " of l, 0 when there is none
RECURSIVE FindSpace(_, _)
FindSpace(l, i) ==
    IF i > Len(l) THEN 0 ELSE IF l[i] = " " THEN i ELSE FindSpace(l, i + 1)

\* a line is a sequence of text pieces; parse_line gives None or Some(<<cmd, args>>)
parse_line(l) ==
    IF l = <<>> THEN None
    ELSE The({ IF t = <<>> THEN None
               ELSE LET k == FindSpace(t, 1)
                    IN  IF k > 0
                        THEN Some(<<SubSeq(t, 1, k - 1), SubSeq(t, k + 1, Len(t))>>)
                        ELSE Some(<<t, <<>> >>)
             : t \in {Trim(l)} })

\* the text handed to serde_json: surrounding JSON whitespace is insignificant,
\* anything but a single document does not parse
ArgsText(args) == The({ IF Len(t) = 1 THEN t[1] ELSE TxtGarbage : t \in {Trim(args)} })

\* the payload key that sets a configuration field
KeyOf(field) ==
    IF field = "same_screen_ratio" THEN "same_screen_threshold" ELSE field

\* variant: the payload is merged into the active configuration
ConfigCommandMerge(self_config, args) ==
    LET v == serde_json_from_str(ArgsText(args))
        c == AgentConfigFrom(ArgsText(args))
    IN  [ok |-> c.ok,
         config |-> [f \in DOMAIN DefaultConfig |->
                        IF v.kind = "object" /\ KeyOf(f) \in DOMAIN v.fields
                        THEN c.config[f] ELSE self_config[f]]]

\* the body of the ".CONFIG" arm: the configuration that becomes active
ConfigCommand(self_config, args) == AgentConfigFrom(ArgsText(args))

\* variant: ".QUIT" is logged like any other unknown command
process_line_quit_ignored(self_config, l) == The({
        IF ~IsSome(p) THEN [result |-> "ok", config |-> self_config]
        ELSE LET cmd == Unwrap(p)[1]
                 args == Unwrap(p)[2]
             IN  CASE cmd = <<".CONFIG">> ->
                        LET c == ConfigCommand(self_config, args)
                        IN  IF c.ok THEN [result |-> "ok", config |-> c.config]
                            ELSE [result |-> "panic", config |-> self_config]
                   [] OTHER -> [result |-> "ok", config |-> self_config]
      : p \in {parse_line(l)} })

\* process_line: "ok" (returns), "exit" (std::process::exit(0)) or "panic"
process_line(self_config, l) == The({
        IF ~IsSome(p) THEN [result |-> "ok", config |-> self_config]
        ELSE LET cmd == Unwrap(p)[1]
                 args == Unwrap(p)[2]
             IN  CASE cmd = <<".CONFIG">> ->
                        LET c == ConfigCommand(self_config, args)
                        IN  IF c.ok THEN [result |-> "ok", config |-> c.config]
                            ELSE [result |-> "panic", config |-> self_config]
                   [] cmd = <<".QUIT">> -> [result |-> "exit", config |-> self_config]
                   [] OTHER -> [result |-> "ok", config |-> self_config]
      : p \in {parse_line(l)} })

ConfigTexts ==
    {TxtInterval0, TxtInterval2, TxtRatio, TxtThreshold, TxtWrongType, TxtGarbage}

ConfigLine(txt) == <<".CONFIG", " ", txt, "\n">>
QuitLine == <<".QUIT", "\n">>
UnknownLine == <<".FOO", " ", "bar", "\n">>
BlankLine == <<" ", "\n">>
\* read_line at end of input appends nothing
EndOfInput == <<>>

\* what one read_line can deliver
ControlLines ==
    {ConfigLine(t) : t \in ConfigTexts} \cup {QuitLine, UnknownLine, BlankLine, EndOfInput}

\* the lines whose bytes may reach the reader in two chunks, and where they split
ChunkedLines == {ConfigLine(TxtInterval2)}
ChunkCuts == {2}

\* the values of the --config flag ("" when the flag is absent)
CliArgs == {"", TxtCli, TxtInterval0}

-----------------------------------------------------------------------------
(* Capture cycle *)

\* ids the platform gives the primary monitor
MonitorIds == {1}

\* outcomes of Monitor::all() and capture_image()
CaptureOutcomes == {"enum_err", "no_primary", "capture_err", "ok"}

\* what a tick can meet: a failing or empty enumeration, a failing capture,
\* or a captured frame of the primary monitor
Captures ==
    {[cap |-> c, frame |-> FrameBlack, monitor |-> 1] :
        c \in CaptureOutcomes \ {"ok"}}
    \cup {[cap |-> "ok", frame |-> f, monitor |-> m] : f \in Frames, m \in MonitorIds}

\* outcomes of rgba_to_base64_png and serde_json::to_string
Encodings ==
    {[png_ok |-> TRUE, json_ok |-> TRUE], [png_ok |-> FALSE, json_ok |-> TRUE],
     [png_ok |-> TRUE, json_ok |-> FALSE]}

\* variant: the captured frame is returned without asking is_blank
take_screenshot_unfiltered(cfg, cap, frame, mon, ts) ==
    IF cap \in {"enum_err", "capture_err"} THEN [err |-> TRUE, shot |-> None]
    ELSE IF cap = "no_primary" THEN [err |-> FALSE, shot |-> None]
    ELSE [err |-> FALSE,
          shot |-> Some([timestamp |-> ts, monitor |-> mon, image |-> frame])]

\* take_screenshot: err = TRUE for Err(_), else shot is the Option<Screenshot>
take_screenshot(cfg, cap, frame, mon, ts) ==
    IF cap \in {"enum_err", "capture_err"} THEN [err |-> TRUE, shot |-> None]
    ELSE IF cap = "no_primary" THEN [err |-> FALSE, shot |-> None]
    ELSE IF is_blank(cfg, frame) THEN [err |-> FALSE, shot |-> None]
    ELSE [err |-> FALSE,
          shot |-> Some([timestamp |-> ts, monitor |-> mon, image |-> frame])]

\* format!("{}-{}-{}", ymd, hms, monitor): the second of the capture and the monitor
ImageId(screenshot) == <<screenshot.timestamp, screenshot.monitor>>

timestamp_millis(ts) == ts * 1000

\* variant: the identifier is computed from the frame at hand
MakeSameScreenEventFresh(self_last_image_id, screenshot) ==
    [type |-> "same", t |-> timestamp_millis(screenshot.timestamp),
     image_id |-> ImageId(screenshot), image |-> None]

MakeSameScreenEvent(self_last_image_id, screenshot) ==
    [type |-> "same", t |-> timestamp_millis(screenshot.timestamp),
     image_id |-> Unwrap(self_last_image_id), image |-> None]

MakeScreenEvent(screenshot) ==
    [type |-> "screen", t |-> timestamp_millis(screenshot.timestamp),
     image_id |-> ImageId(screenshot),
     image |-> Some(<<screenshot.image.width, screenshot.image.height>>)]

\* execute_task: result is "ok" (Ok), "err" (Err, logged by run) or "panic";
\* out is the line printed, if any
execute_task(cfg, self_last_image, self_last_image_id, taken, png_ok, json_ok) ==
    LET unchanged == [out |-> None, last_image |-> self_last_image,
                      last_image_id |-> self_last_image_id]
    IN  IF taken.err THEN [result |-> "err"] @@ unchanged
        ELSE IF ~IsSome(taken.shot) THEN [result |-> "ok"] @@ unchanged
        ELSE LET screenshot == Unwrap(taken.shot)
                 judged == is_same(cfg, self_last_image, screenshot)
                 kept == [out |-> None, last_image |-> judged.last_image,
                          last_image_id |-> self_last_image_id]
             IN  IF judged.same
                 THEN IF ~IsSome(self_last_image_id) THEN [result |-> "panic"] @@ kept
                      ELSE IF ~json_ok THEN [result |-> "err"] @@ kept
                      ELSE [result |-> "ok",
                            out |-> Some(MakeSameScreenEvent(self_last_image_id, screenshot)),
                            last_image |-> judged.last_image,
                            last_image_id |-> self_last_image_id]
                 ELSE IF ~png_ok \/ ~json_ok THEN [result |-> "err"] @@ kept
                      ELSE [result |-> "ok",
                            out |-> Some(MakeScreenEvent(screenshot)),
                            last_image |-> judged.last_image,
                            last_image_id |-> Some(ImageId(screenshot))]

\* variant: the timer keeps the period it was first armed with
interval_changed_never(self_last_interval_period, cfg) == FALSE

\* `last_interval_period != self.config.interval`
interval_changed(self_last_interval_period, cfg) ==
    self_last_interval_period # Some(cfg.interval)

\* tokio::time::interval(period): the first tick completes immediately
time_interval(period, at) == [period |-> period, deadline |-> at]

-----------------------------------------------------------------------------
(* State *)

VARIABLES
    config,                \* ScreenAgent.config
    last_image,            \* ScreenAgent.last_image
    last_image_id,         \* ScreenAgent.last_image_id
    interval,              \* run: the armed Interval, None before run arms it
    last_interval_period,  \* run: the period `interval` was armed with
    line,                  \* run: the String read_line fills; while a read_line
                           \* is pending, the buffer the future took from it
    stdin,                 \* the rest of a line of which a first chunk was read
    pc,                    \* "start", "loop", "stopped", "exited", "panicked", "killed"
    active,                \* handler bodies of the select! that are executing
    exit_code,             \* process exit status, None while it runs
    now,                   \* wall clock, seconds (stands still at MaxNow)
    sig,                   \* SIGINT: handler installed, raised, listener of ctrl_c()
    snap,                  \* history: the agent as the handler in service found it
    served,                \* history: the handler serviced last and its outcome
    last_screen_event,     \* history: image_id of the last ScreenEvent printed
    arm                    \* history: when and where `interval` was armed

vars == <<config, last_image, last_image_id, interval, last_interval_period, line,
          stdin, pc, active, exit_code, now, sig, snap, served,
          last_screen_event, arm>>

agent == <<config, last_image, last_image_id>>
timer == <<interval, last_interval_period, arm>>

Running == pc \in {"start", "loop"}

\* variant: a branch is chosen while a handler body is still executing
IdleSpawned == Cardinality(active) <= 1

\* the loop is back at select!: the handler it chose has run to completion
\* and the loop has gone round
Idle == active = {} /\ served.kind = "none"

NoSnap ==
    [kind |-> "none", config |-> DefaultConfig, last_image |-> None,
     last_image_id |-> None, period |-> 0, since_arm |-> 0,
     first_of_rearm |-> FALSE]

NoServed == [kind |-> "none", result |-> "none", out |-> None, line |-> <<>>,
             rearm |-> FALSE, cap |-> "none", frame |-> None]

Init ==
    /\ config \in {AgentConfigFrom(a).config : a \in CliArgs}
    /\ last_image = None
    /\ last_image_id = None
    /\ interval = None
    /\ last_interval_period = None
    /\ line = <<>>
    /\ stdin = <<>>
    /\ pc = "start"
    /\ active = {}
    /\ exit_code = None
    /\ now = 0
    /\ sig = [installed |-> FALSE, pending |-> FALSE, listening |-> FALSE,
              notified |-> FALSE, count |-> 0]
    /\ snap = NoSnap
    /\ served = NoServed
    /\ last_screen_event = None
    /\ arm = [at |-> 0, rearmed |-> FALSE, fired |-> FALSE]

Panic ==
    /\ pc' = "panicked"
    /\ exit_code' = Some(101)
    /\ active' = {}

\* run, up to the loop: arm the timer with the configured interval
Run ==
    /\ pc = "start"
    /\ IF config.interval = 0
       THEN /\ Panic
            /\ UNCHANGED timer
       ELSE /\ interval' = Some(time_interval(config.interval, now))
            /\ last_interval_period' = Some(config.interval)
            /\ arm' = [at |-> now, rearmed |-> FALSE, fired |-> FALSE]
            /\ pc' = "loop"
            /\ UNCHANGED <<active, exit_code>>
    /\ UNCHANGED <<agent, line, stdin, now, sig, snap, served, last_screen_event>>

\* the futures of one select! are dropped when a branch is chosen
DropListener == [sig EXCEPT !.listening = FALSE, !.notified = FALSE]

TakeSnap(kind) ==
    [kind |-> kind, config |-> config, last_image |-> last_image,
     last_image_id |-> last_image_id, period |-> Unwrap(interval).period,
     since_arm |-> now - arm.at, first_of_rearm |-> arm.rearmed /\ ~arm.fired]

\* interval.tick() completes: the timer branch is chosen; the pending read_line
\* is dropped, and with it what it had read of an unfinished line
TickBegin ==
    /\ pc = "loop"
    /\ Idle
    /\ now >= Unwrap(interval).deadline
    /\ interval' = Some([Unwrap(interval) EXCEPT !.deadline = @ + Unwrap(interval).period])
    /\ arm' = [arm EXCEPT !.fired = TRUE]
    /\ active' = active \cup {"task"}
    /\ snap' = TakeSnap("tick")
    /\ sig' = DropListener
    /\ served' = NoServed
    /\ line' = <<>>
    /\ UNCHANGED <<agent, last_interval_period, stdin, pc, exit_code, now,
                   last_screen_event>>

\* the timer branch: execute_task, its error logged, then the rearm check
ExecuteTask ==
    /\ pc = "loop"
    /\ "task" \in active
    /\ \E c \in Captures, e \in Encodings :
        \E r \in {execute_task(config, last_image, last_image_id,
                                take_screenshot(config, c.cap, c.frame, c.monitor, now),
                                e.png_ok, e.json_ok)} :
          LET rearm == interval_changed(last_interval_period, config)
          IN  /\ last_image' = r.last_image
              /\ last_image_id' = r.last_image_id
              /\ last_screen_event' =
                     IF IsSome(r.out) /\ Unwrap(r.out).type = "screen"
                     THEN Some(Unwrap(r.out).image_id) ELSE last_screen_event
              /\ served' = [kind |-> "tick", result |-> r.result, out |-> r.out,
                            line |-> <<>>, rearm |-> r.result # "panic" /\ rearm,
                            cap |-> c.cap,
                            frame |-> IF c.cap = "ok" THEN Some(c.frame) ELSE None]
              /\ IF r.result = "panic"
                 THEN Panic /\ UNCHANGED timer
                 ELSE IF rearm
                 THEN IF config.interval = 0
                      THEN Panic /\ UNCHANGED timer
                      ELSE /\ interval' = Some(time_interval(config.interval, now))
                           /\ last_interval_period' = Some(config.interval)
                           /\ arm' = [at |-> now, rearmed |-> TRUE, fired |-> FALSE]
                           /\ active' = active \ {"task"}
                           /\ UNCHANGED <<pc, exit_code>>
                 ELSE /\ active' = active \ {"task"}
                      /\ UNCHANGED <<timer, pc, exit_code>>
    /\ UNCHANGED <<config, line, stdin, now, sig, snap>>

\* the first bytes of a line reach the pending read_line, the newline not yet:
\* read_line keeps them in its buffer and stays pending
ReadChunk ==
    /\ pc = "loop"
    /\ Idle
    /\ stdin = <<>>
    /\ line = <<>>
    /\ \E l \in ChunkedLines, k \in ChunkCuts :
           /\ k < Len(l)
           /\ line' = SubSeq(l, 1, k)
           /\ stdin' = SubSeq(l, k + 1, Len(l))
    /\ UNCHANGED <<agent, timer, pc, active, exit_code, now, sig, snap, served,
                   last_screen_event>>

\* read_line completes: the rest of the line in flight arrives, or a whole line
\* at once, or nothing at end of input
ReadLine ==
    /\ pc = "loop"
    /\ Idle
    /\ IF stdin # <<>>
       THEN /\ line' = line \o stdin
            /\ stdin' = <<>>
       ELSE /\ \E l \in ControlLines : line' = line \o l
            /\ UNCHANGED stdin
    /\ active' = active \cup {"line"}
    /\ snap' = TakeSnap("line")
    /\ sig' = DropListener
    /\ served' = NoServed
    /\ UNCHANGED <<agent, timer, pc, exit_code, now, last_screen_event>>

\* the line branch: process_line, its error logged, then line.clear()
ProcessLine ==
    /\ pc = "loop"
    /\ "line" \in active
    /\ \E r \in {process_line(config, line)} :
           /\ served' = [kind |-> "line", result |-> r.result, out |-> None,
                         line |-> line, rearm |-> FALSE, cap |-> "none",
                         frame |-> None]
           /\ IF r.result = "exit"
              THEN /\ pc' = "exited"
                   /\ exit_code' = Some(0)
                   /\ active' = {}
                   /\ UNCHANGED <<config, line>>
              ELSE IF r.result = "panic"
              THEN /\ Panic
                   /\ UNCHANGED <<config, line>>
              ELSE /\ config' = r.config
                   /\ line' = <<>>
                   /\ active' = active \ {"line"}
                   /\ UNCHANGED <<pc, exit_code>>
    /\ UNCHANGED <<last_image, last_image_id, timer, stdin, now, sig, snap,
                   last_screen_event>>

\* the arm of the handler ends and the loop goes round to select!; what is
\* remembered of the handler is dropped
Loop ==
    /\ pc = "loop"
    /\ active = {}
    /\ served.kind # "none"
    /\ served' = NoServed
    /\ snap' = NoSnap
    /\ UNCHANGED <<agent, timer, line, stdin, pc, active, exit_code, now, sig,
                   last_screen_event>>

\* select! polls ctrl_c(): the SIGINT handler is installed and a listener registered
Park ==
    /\ pc = "loop"
    /\ Idle
    /\ ~sig.listening
    /\ sig' = [sig EXCEPT !.listening = TRUE, !.installed = TRUE]
    /\ UNCHANGED <<agent, timer, line, stdin, pc, active, exit_code, now, snap,
                   served, last_screen_event>>

\* the environment raises SIGINT
Interrupt ==
    /\ Running
    /\ sig.count < MaxSignals
    /\ IF sig.installed
       THEN /\ sig' = [sig EXCEPT !.pending = TRUE, !.count = @ + 1]
            /\ UNCHANGED <<pc, exit_code, active>>
       ELSE /\ sig' = [sig EXCEPT !.count = @ + 1]
            /\ pc' = "killed"
            /\ exit_code' = Some(130)
            /\ active' = {}
    /\ UNCHANGED <<agent, timer, line, stdin, now, snap, served, last_screen_event>>

\* the runtime's signal driver notifies the listeners registered at that moment
Broadcast ==
    /\ Running
    /\ sig.pending
    /\ sig' = [sig EXCEPT !.pending = FALSE, !.notified = sig.listening]
    /\ UNCHANGED <<agent, timer, line, stdin, pc, active, exit_code, now, snap,
                   served, last_screen_event>>

\* the ctrl_c branch: log and break; run returns Ok and main exits with 0
Shutdown ==
    /\ pc = "loop"
    /\ Idle
    /\ sig.listening /\ sig.notified
    /\ pc' = "stopped"
    /\ exit_code' = Some(0)
    /\ served' = [kind |-> "int", result |-> "ok", out |-> None, line |-> <<>>,
                  rearm |-> FALSE, cap |-> "none", frame |-> None]
    /\ UNCHANGED <<agent, timer, line, stdin, active, now, sig, snap,
                   last_screen_event>>

\* time passes: a second while the clock is followed; once the clock has reached
\* MaxNow, seconds are no longer told apart and time runs on to the moment the
\* timer is due, the instants of the timer moving back instead of the clock
\* moving on
Tock ==
    /\ Running
    /\ IF now < MaxNow
       THEN /\ now' = now + 1
            /\ UNCHANGED timer
       ELSE /\ pc = "loop"
            /\ Unwrap(interval).deadline > now
            /\ interval' = Some([Unwrap(interval) EXCEPT !.deadline = now])
            /\ arm' = [arm EXCEPT !.at =
                          IF @ - (Unwrap(interval).deadline - now)
                                 < now - Unwrap(interval).period
                          THEN now - Unwrap(interval).period
                          ELSE @ - (Unwrap(interval).deadline - now)]
            /\ UNCHANGED <<now, last_interval_period>>
    /\ UNCHANGED <<agent, line, stdin, pc, active, exit_code, sig, snap, served,
                   last_screen_event>>

Next ==
    \/ Run
    \/ TickBegin
    \/ ExecuteTask
    \/ ReadChunk
    \/ ReadLine
    \/ ProcessLine
    \/ Loop
    \/ Park
    \/ Interrupt
    \/ Broadcast
    \/ Shutdown
    \/ Tock

Spec == Init /\ [][Next]_vars

\* configurations over the thresholds an AgentConfig can hold
DetectorConfigs ==
    [interval : {DefaultConfig.interval},
     almost_black_threshold : {0, 20, 256, 276},
     non_blank_threshold : {0, 1, 2},
     same_screen_ratio : {Ratio(1, 100), Ratio(1, 2)}]

\* a fresh agent with one of these configurations
DetectorInit ==
    /\ config \in DetectorConfigs
    /\ last_image = None
    /\ last_image_id = None
    /\ interval = None
    /\ last_interval_period = None
    /\ line = <<>>
    /\ stdin = <<>>
    /\ pc = "start"
    /\ active = {}
    /\ exit_code = None
    /\ now = 0
    /\ sig = [installed |-> FALSE, pending |-> FALSE, listening |-> FALSE,
              notified |-> FALSE, count |-> 0]
    /\ snap = NoSnap
    /\ served = NoServed
    /\ last_screen_event = None
    /\ arm = [at |-> 0, rearmed |-> FALSE, fired |-> FALSE]

\* execute_task called on the agent with a captured frame, no encoding failing
Capture ==
    /\ pc = "start"
    /\ \E f \in DetectorFrames, m \in MonitorIds :
        \E r \in {execute_task(config, last_image, last_image_id,
                                take_screenshot(config, "ok", f, m, now),
                                TRUE, TRUE)} :
              /\ last_image' = r.last_image
              /\ last_image_id' = r.last_image_id
              /\ last_screen_event' =
                     IF IsSome(r.out) /\ Unwrap(r.out).type = "screen"
                     THEN Some(Unwrap(r.out).image_id) ELSE last_screen_event
              /\ snap' = [NoSnap EXCEPT !.kind = "tick", !.config = config,
                                        !.last_image = last_image,
                                        !.last_image_id = last_image_id]
              /\ served' = [kind |-> "tick", result |-> r.result, out |-> r.out,
                            line |-> <<>>, rearm |-> FALSE, cap |-> "ok",
                            frame |-> Some(f)]
    /\ UNCHANGED <<config, timer, line, stdin, pc, active, exit_code, now, sig>>

\* the blank filter and the change detector, driven frame by frame
DetectorSpec == DetectorInit /\ [][Capture]_vars

\* the scheduling the runtime guarantees: a chosen handler runs to completion,
\* the signal driver delivers, time passes, and select! is fair to its branches:
\* a timer tick, the poll of ctrl_c() and a notified ctrl_c branch that are
\* ready again and again are not passed over forever
FairSpec ==
    /\ Spec
    /\ WF_vars(Run)
    /\ WF_vars(ExecuteTask)
    /\ WF_vars(ProcessLine)
    /\ WF_vars(Loop)
    /\ WF_vars(Broadcast)
    /\ WF_vars(Tock)
    /\ SF_vars(TickBegin)
    /\ SF_vars(Park)
    /\ SF_vars(Shutdown)

-----------------------------------------------------------------------------
(* Properties *)

\* the command and the payload of a control line
CommandOf(l) == IF IsSome(parse_line(l)) THEN Unwrap(parse_line(l))[1] ELSE <<>>
PayloadOf(l) ==
    IF IsSome(parse_line(l))
    THEN serde_json_from_str(ArgsText(Unwrap(parse_line(l))[2])) ELSE JNull

TickServed == served.kind = "tick"
LineServed == served.kind = "line"
Emitted(type) == IsSome(served.out) /\ Unwrap(served.out).type = type

\* a .CONFIG line with a JSON-object payload was handled and process_line returned
ConfigServed ==
    /\ LineServed
    /\ served.result = "ok"
    /\ CommandOf(served.line) = <<".CONFIG">>
    /\ PayloadOf(served.line).kind = "object"

ConfigFields ==
    {"interval", "almost_black_threshold", "non_blank_threshold", "same_screen_ratio"}

\* C1: in every reachable state, a stored last_image comes with a stored
\* last_image_id, so a frame judged same always finds an identifier to reuse.
C1_LastImageHasId == IsSome(last_image) => IsSome(last_image_id)

\* C2: a capture cycle that ended in an error printed no event and left
\* last_image and last_image_id as they were when the tick began.
C2_FailedCycleLeavesState ==
    (TickServed /\ served.result = "err") =>
        /\ served.out = None
        /\ last_image = snap.last_image
        /\ last_image_id = snap.last_image_id

\* C3: after a capture cycle or a control line other than .QUIT has been
\* serviced, the process has neither panicked nor exited.
C3_HandlersNeverTerminate ==
    ((TickServed \/ LineServed) /\ CommandOf(served.line) # <<".QUIT">>) =>
        pc \notin {"panicked", "exited"}

\* C4: a SameScreenEvent carries the image_id of the most recently printed
\* ScreenEvent.
C4_SameEventNamesLastScreenEvent ==
    (TickServed /\ Emitted("same")) =>
        /\ IsSome(last_screen_event)
        /\ Unwrap(served.out).image_id = Unwrap(last_screen_event)

\* C4 witness: a SameScreenEvent was printed for a frame captured in a later
\* second than the ScreenEvent it names.
C4_Witness ==
    /\ TickServed /\ Emitted("same")
    /\ timestamp_millis(Unwrap(served.out).image_id[1]) < Unwrap(served.out).t

\* C5 as stated: after a .CONFIG whose payload names only some fields, the
\* fields it does not name keep the value of the configuration active before.
C5_UnnamedFieldsKeepPriorValue ==
    ConfigServed =>
        \A f \in ConfigFields \ DOMAIN PayloadOf(served.line).fields :
            config[f] = snap.config[f]

\* C5 amended: after a .CONFIG with a JSON-object payload, interval,
\* almost_black_threshold and non_blank_threshold are 60, 20 and 400 when the
\* payload does not name them, and same_screen_ratio is 0.01 when the payload has
\* no same_screen_threshold key, whatever the configuration held before.
C5_UnnamedFieldsTakeDefaults ==
    ConfigServed =>
        LET keys == DOMAIN PayloadOf(served.line).fields
        IN  /\ "interval" \notin keys => config.interval = 60
            /\ "almost_black_threshold" \notin keys => config.almost_black_threshold = 20
            /\ "non_blank_threshold" \notin keys => config.non_blank_threshold = 400
            /\ "same_screen_threshold" \notin keys => config.same_screen_ratio = Ratio(1, 100)

\* C5 witness: a .CONFIG that does not name the interval was handled while a
\* non-default interval was active, and the interval is the default again.
C5_Witness ==
    /\ ConfigServed
    /\ "interval" \notin DOMAIN PayloadOf(served.line).fields
    /\ snap.config.interval # 60
    /\ config.interval = 60

\* the value a payload gives a configuration field
GivenValue(v) == IF v.t = "uint" THEN v.n ELSE Ratio(v.n, v.d)

\* C6: after a .CONFIG with a JSON-object payload, each of interval,
\* almost_black_threshold, non_blank_threshold and same_screen_ratio that the
\* payload names holds the given value.
C6_NamedFieldsAreSet ==
    ConfigServed =>
        \A f \in ConfigFields \cap DOMAIN PayloadOf(served.line).fields :
            config[f] = GivenValue(PayloadOf(served.line).fields[f])

\* C7: the first capture cycle after the timer was rearmed for a changed
\* interval starts no earlier than one full new period after the rearm.
C7_RearmWaitsFullPeriod ==
    (snap.kind = "tick" /\ snap.first_of_rearm) => snap.since_arm >= snap.period

\* C8: handling a .QUIT line ends the process with exit code 0, and once it
\* has exited nothing changes any more: no tick, no line, no event.
C8_QuitTerminates ==
    [][/\ ("line" \in active /\ CommandOf(line) = <<".QUIT">> /\ served'.kind = "line")
            => (pc' = "exited" /\ exit_code' = Some(0))
       /\ pc = "exited" => UNCHANGED vars]_vars

\* C8 witness: the process has exited with code 0 on .QUIT while a timer tick
\* was already due.
C8_Witness ==
    /\ pc = "exited"
    /\ exit_code = Some(0)
    /\ CommandOf(served.line) = <<".QUIT">>
    /\ now >= Unwrap(interval).deadline

\* C9: once an interrupt signal has been raised, the scheduler eventually
\* leaves the running state.
C9_InterruptStopsLoop == (sig.count > 0) ~> ~Running

\* C10: at most one handler executes at a time, and while a capture cycle is
\* executing the configuration and the agent state are those the tick found.
C10_OneActivityAtATime ==
    /\ Cardinality(active) <= 1
    /\ "task" \in active =>
          /\ snap.kind = "tick"
          /\ config = snap.config
          /\ last_image = snap.last_image
          /\ last_image_id = snap.last_image_id

\* C10 witness: a capture cycle is executing against a configuration that a
\* control line installed before the tick.
C10_Witness ==
    /\ active = {"task"}
    /\ config = snap.config
    /\ config.same_screen_ratio = Ratio(1, 2)

\* the tick captured a frame of the primary monitor and is_blank rejected it
BlankTick ==
    TickServed /\ served.cap = "ok" /\ is_blank(snap.config, Unwrap(served.frame))

\* the tick captured a frame of the primary monitor and is_blank let it pass
AcceptedTick ==
    TickServed /\ served.cap = "ok" /\ ~is_blank(snap.config, Unwrap(served.frame))

\* the fingerprint of the frame the tick captured
ServedFingerprint == fast_downsample(Unwrap(served.frame), Scale)

\* C11: a tick whose frame the blank filter rejected, or that found no primary
\* display, printed no event and left last_image and last_image_id as the tick
\* found them.
C11_RejectedTickLeavesState ==
    (BlankTick \/ (TickServed /\ served.cap = "no_primary")) =>
        /\ served.out = None
        /\ last_image = snap.last_image
        /\ last_image_id = snap.last_image_id

\* C11 witness: a blank frame was rejected while a baseline was stored.
C11_Witness == BlankTick /\ IsSome(last_image) /\ IsSome(last_image_id)

\* C12: a tick prints at most one line (served.out holds at most one event); a
\* tick whose frame passed the blank filter and whose encoding did not fail
\* printed exactly one event, a SameScreenEvent when the frame is judged same
\* and a ScreenEvent when it is judged different; a control line printed none.
C12_OneLinePerJudgedFrame ==
    /\ LineServed => served.out = None
    /\ (AcceptedTick /\ served.result # "err") =>
          /\ IsSome(served.out)
          /\ Unwrap(served.out).type =
                IF is_same(snap.config, snap.last_image,
                           [image |-> Unwrap(served.frame)]).same
                THEN "same" ELSE "screen"

\* a .CONFIG line whose payload is no JSON object or has a wrong-typed field
MalformedConfig(l) ==
    /\ CommandOf(l) = <<".CONFIG">>
    /\ \/ PayloadOf(l).kind # "object"
       \/ ~AgentConfigFrom(ArgsText(Unwrap(parse_line(l))[2])).ok

\* a line whose command is none of the commands process_line knows
UnknownCommand(l) == CommandOf(l) \notin {<<>>, <<".CONFIG">>, <<".QUIT">>}

\* C13: after a line with an unknown command or a .CONFIG with a malformed
\* payload, the configuration and the agent state are what they were before the
\* line, and the loop is still running.
C13_ProtocolErrorsIgnored ==
    (LineServed /\ (UnknownCommand(served.line) \/ MalformedConfig(served.line))) =>
        /\ pc = "loop"
        /\ config = snap.config
        /\ last_image = snap.last_image
        /\ last_image_id = snap.last_image_id

\* C14: a control line leaves last_image and last_image_id alone; a tick that
\* printed a SameScreenEvent leaves both alone; last_image changes only in a
\* tick whose frame passed the filter and was not judged same, to that frame's
\* fingerprint; the first frame accepted by a fresh agent is stored and not
\* judged same; a tick that printed a ScreenEvent stored the frame's
\* fingerprint and the event's image_id; last_image_id changes in no other tick.
C14_BaselineChangesOnlyOnDifferent ==
    /\ LineServed =>
          (last_image = snap.last_image /\ last_image_id = snap.last_image_id)
    /\ TickServed =>
          /\ Emitted("same") =>
                (last_image = snap.last_image /\ last_image_id = snap.last_image_id)
          /\ last_image # snap.last_image =>
                (AcceptedTick /\ ~Emitted("same")
                   /\ last_image = Some(ServedFingerprint))
          /\ (AcceptedTick /\ snap.last_image = None) =>
                (~Emitted("same") /\ last_image = Some(ServedFingerprint))
          /\ Emitted("screen") =>
                /\ last_image = Some(ServedFingerprint)
                /\ last_image_id = Some(Unwrap(served.out).image_id)
          /\ last_image_id # snap.last_image_id => Emitted("screen")

\* C14 witness: a frame whose fingerprint differs from the baseline was judged
\* same, and the baseline stayed.
C14_Witness ==
    /\ TickServed /\ Emitted("same")
    /\ last_image # Some(ServedFingerprint)

\* C15: when the timer branch has finished a tick, the timer's period and
\* last_interval_period equal config.interval; a tick that finds the interval
\* unchanged and every control line leave the timer as it is, and choosing the
\* timer branch only moves the deadline on by one period.
C15_TimerFollowsConfig ==
    /\ [](TickServed /\ pc = "loop" =>
            /\ last_interval_period = Some(config.interval)
            /\ Unwrap(interval).period = config.interval)
    /\ [][/\ (served.kind = "none" /\ served'.kind = "line") =>
               UNCHANGED <<interval, last_interval_period>>
          /\ (served.kind = "none" /\ served'.kind = "tick"
                /\ last_interval_period = Some(config.interval)) =>
               UNCHANGED <<interval, last_interval_period>>
          /\ (served.kind = "none" /\ served'.kind = "tick" /\ pc' = "loop"
                /\ last_interval_period # Some(config.interval)) =>
               served'.rearm
          /\ ("task" \notin active /\ "task" \in active') =>
               /\ Unwrap(interval').period = Unwrap(interval).period
               /\ Unwrap(interval').deadline =
                      Unwrap(interval).deadline + Unwrap(interval).period
               /\ UNCHANGED last_interval_period]_vars

\* C15 witness: a tick found the interval changed by a control line and has
\* rearmed the timer with the new period.
C15_Witness ==
    /\ TickServed /\ pc = "loop" /\ served.rearm
    /\ snap.period # config.interval
    /\ Unwrap(interval).period = config.interval

\* C19: last_image is only ever written by a capture cycle that also prints a
\* ScreenEvent and stores that event's image_id in last_image_id, so whenever a
\* tick can begin the two were written by the same cycle.
C19_StateWrittenTogether ==
    [][last_image' # last_image =>
          /\ served'.kind = "tick"
          /\ IsSome(served'.out)
          /\ Unwrap(served'.out).type = "screen"
          /\ last_image_id' = Some(Unwrap(served'.out).image_id)]_vars

\* C20: arming the timer never ends the process: neither run's first
\* time::interval, before any timer exists, nor the rearm after a tick that
\* found the interval changed.
C20_ArmingAlwaysSucceeds ==
    /\ interval = None => pc # "panicked"
    /\ (TickServed /\ served.rearm) => pc # "panicked"

\* C18: every line handed to process_line is a complete line as the
\* orchestrator wrote it, never a fragment of one.
C18_LinesHandledWhole == LineServed => served.line \in ControlLines

\* C16: a frame that passed the blank filter and whose fingerprint is the
\* stored baseline is judged same whenever same_screen_ratio > 0: the tick
\* prints a SameScreenEvent and the baseline stays.
C16_IdenticalFrameJudgedSame ==
    (/\ AcceptedTick
     /\ snap.last_image = Some(ServedFingerprint)
     /\ RatioLess(Ratio(0, 1), snap.config.same_screen_ratio)) =>
        /\ Emitted("same")
        /\ last_image = snap.last_image

\* C17: a captured frame passes the blank filter exactly when, going through
\* the pixels 0, 120, 240, ... in order, the count of pixels with R, G or B at
\* least almost_black_threshold reaches non_blank_threshold at some sampled
\* pixel.
C17_BlankFilterCountsSamples ==
    (TickServed /\ served.cap = "ok") =>
        LET data == Unwrap(served.frame).data
            th == snap.config.almost_black_threshold
            sampled == {i \in 0..(Len(data) - 1) : i % Stride = 0}
            counted(i) ==
                Cardinality({j \in sampled :
                                /\ j <= i
                                /\ \/ data[j + 1][1] >= th
                                   \/ data[j + 1][2] >= th
                                   \/ data[j + 1][3] >= th})
        IN  AcceptedTick <=>
                \E i \in sampled : counted(i) >= snap.config.non_blank_threshold

====
